---------------------------- MODULE Spec2Model ----------------------------
(***************************************************************************)
(* Indicator computations of stock_metrics.py and helper.py over the       *)
(* pandas table returned by fetcher.fetch_data.                            *)
(*                                                                         *)
(* A table is [columns, index_name, rows]; a row is [label, cells] where   *)
(* label is the row's index label and cells maps each column to its cell.  *)
(* Numeric cells are float64 values modelled as extended rationals:        *)
(*   [k |-> "num", n, d]  the rational n/d in lowest terms, d > 0          *)
(*   [k |-> "nan"], [k |-> "pinf"], [k |-> "ninf"]  (n = 0, d = 1)         *)
(*   [k |-> "ln", n, d]   the natural logarithm of n/d (n/d > 0, # 1)      *)
(* Rounding error of float64 is not modelled.                              *)
(***************************************************************************)
EXTENDS Integers, Sequences, FiniteSets, TLC

VARIABLES fetched, df, ret, talib

vars == <<fetched, df, ret, talib>>

-----------------------------------------------------------------------------
(* float64 arithmetic as numpy performs it (IEEE-754 special values)       *)

Abs(x) == IF x < 0 THEN -x ELSE x

RECURSIVE GCD(_, _)
GCD(a, b) == IF b = 0 THEN a ELSE GCD(b, a % b)

Rat(n, d) ==
    LET s == IF d < 0 THEN -1 ELSE 1
        g == GCD(Abs(n), Abs(d))
    IN  [k |-> "num", n |-> (s * n) \div g, d |-> (s * d) \div g]

Num(i) == [k |-> "num", n |-> i, d |-> 1]

NaN == [k |-> "nan", n |-> 0, d |-> 1]

PInf == [k |-> "pinf", n |-> 0, d |-> 1]

NInf == [k |-> "ninf", n |-> 0, d |-> 1]

IsNaN(a) == a.k = "nan"

IsInf(a) == a.k \in {"pinf", "ninf"}

IsFinite(a) == a.k = "num"

\* -1, 0 or 1; NaN has no sign and is never passed
Sign(a) ==
    CASE a.k = "pinf" -> 1
      [] a.k = "ninf" -> -1
      [] OTHER -> IF a.n > 0 THEN 1 ELSE IF a.n < 0 THEN -1 ELSE 0

FNeg(a) ==
    CASE a.k = "num" -> [a EXCEPT !.n = -a.n]
      [] a.k = "pinf" -> NInf
      [] a.k = "ninf" -> PInf
      [] OTHER -> NaN

FAdd(a, b) ==
    IF IsNaN(a) \/ IsNaN(b) THEN NaN
    ELSE IF IsFinite(a) /\ IsFinite(b)
         THEN LET g == GCD(a.d, b.d)
              IN  Rat(a.n * (b.d \div g) + b.n * (a.d \div g), (a.d \div g) * b.d)
    ELSE IF IsFinite(a) THEN b
    ELSE IF IsFinite(b) THEN a
    ELSE IF a.k = b.k THEN a ELSE NaN

FSub(a, b) == FAdd(a, FNeg(b))

FMul(a, b) ==
    IF IsNaN(a) \/ IsNaN(b) THEN NaN
    ELSE IF IsFinite(a) /\ IsFinite(b)
         THEN LET g1 == GCD(Abs(a.n), b.d)
                  g2 == GCD(Abs(b.n), a.d)
              IN  Rat((a.n \div g1) * (b.n \div g2), (a.d \div g2) * (b.d \div g1))
    ELSE IF Sign(a) * Sign(b) = 0 THEN NaN
    ELSE IF Sign(a) * Sign(b) > 0 THEN PInf ELSE NInf

FDiv(a, b) ==
    IF IsNaN(a) \/ IsNaN(b) THEN NaN
    ELSE IF IsFinite(b)
         THEN IF b.n = 0
              THEN IF Sign(a) = 0 THEN NaN
                   ELSE IF Sign(a) > 0 THEN PInf ELSE NInf
              ELSE IF IsFinite(a) THEN FMul(a, Rat(b.d, b.n))
              ELSE IF Sign(a) * Sign(b) > 0 THEN PInf ELSE NInf
    ELSE IF IsFinite(a) THEN Num(0)
    ELSE NaN

\* comparisons are False whenever an operand is NaN
FLt(a, b) ==
    /\ ~IsNaN(a)
    /\ ~IsNaN(b)
    /\ CASE a.k = "ninf" -> b.k # "ninf"
         [] a.k = "pinf" -> FALSE
         [] OTHER -> CASE b.k = "pinf" -> TRUE
                       [] b.k = "ninf" -> FALSE
                       [] OTHER -> a.n * b.d < b.n * a.d

FGt(a, b) == FLt(b, a)

FEq(a, b) == ~IsNaN(a) /\ ~IsNaN(b) /\ a = b

FNe(a, b) == ~FEq(a, b)

FLe(a, b) == FLt(a, b) \/ FEq(a, b)

-----------------------------------------------------------------------------
(* Dates, tickers and tables                                               *)

\* a datetime cell is <<year, month, day>>
DateLt(a, b) ==
    \/ a[1] < b[1]
    \/ a[1] = b[1] /\ a[2] < b[2]
    \/ a[1] = b[1] /\ a[2] = b[2] /\ a[3] < b[3]

DateLe(a, b) == a = b \/ DateLt(a, b)

\* the tickers of the dashboard, in string order
TickerOrder == <<"AAPL", "AMZN", "GOOG", "MSFT">>

TickerRank(t) == CHOOSE i \in 1..Len(TickerOrder) : TickerOrder[i] = t

TickerLt(a, b) == TickerRank(a) < TickerRank(b)

\* pd.to_datetime on cells that already hold datetimes returns them unchanged
ToDatetime(cell) == cell

\* a series held as evaluated values
Series(f) == f @@ <<>>

Col(rows, c) == Series([i \in 1..Len(rows) |-> rows[i].cells[c]])

\* df[c] = values, aligned by position (adds c or overwrites it)
SetCol(t, c, values) ==
    [t EXCEPT !.columns = @ \cup {c},
              !.rows = [i \in 1..Len(@) |->
                          [@[i] EXCEPT !.cells =
                              [x \in DOMAIN @ \cup {c} |->
                                  IF x = c THEN values[i] ELSE @[x]]]]]

\* df[cols]: a new table with only these columns
Project(t, cols) ==
    [t EXCEPT !.columns = cols,
              !.rows = [i \in 1..Len(@) |->
                          [@[i] EXCEPT !.cells = [x \in cols |-> @[x]]]]]

\* the order of two cells of a sort column: tickers as strings, datetimes and
\* periods by their fields
CellLt(c, a, b) ==
    IF c = "ticker" THEN TickerLt(a, b)
    ELSE \E k \in 1..Len(a) : a[k] < b[k] /\ \A j \in 1..(k - 1) : a[j] = b[j]

\* the order sort_values(by=...) puts two rows in: by the first column of by
\* in which they differ
RowLt(by, r, s) ==
    \E k \in 1..Len(by) :
        /\ CellLt(by[k], r.cells[by[k]], s.cells[by[k]])
        /\ \A j \in 1..(k - 1) : r.cells[by[j]] = s.cells[by[j]]

\* sort_values(by=...): rows equal on every column of by keep their order
SortRows(rows, by) ==
    LET n == Len(rows)
        Before(j, i) == RowLt(by, rows[j], rows[i]) \/ (~RowLt(by, rows[i], rows[j]) /\ j < i)
        Rank(i) == Cardinality({j \in 1..n : Before(j, i)})
    IN  Series([p \in 1..n |-> rows[CHOOSE i \in 1..n : Rank(i) = p - 1]])

\* the group keys of groupby('ticker'), sorted
GroupKeys(rows) ==
    SelectSeq(TickerOrder, LAMBDA t : \E i \in 1..Len(rows) : rows[i].cells["ticker"] = t)

\* the rows of one ticker, in the table's row order
GroupRows(rows, t) == SelectSeq(rows, LAMBDA r : r.cells["ticker"] = t)

RECURSIVE ConcatAll(_)
ConcatAll(ss) == IF ss = <<>> THEN <<>> ELSE Head(ss) \o ConcatAll(Tail(ss))

-----------------------------------------------------------------------------
(* pandas rolling windows                                                  *)

\* positions of the window ending at t that hold an observation; rolling
\* treats NaN and +-inf alike as missing
WindowObs(xs, window, t) ==
    {i \in 1..t : i > t - window /\ IsFinite(xs[i])}

RECURSIVE SumOver(_, _)
SumOver(xs, S) ==
    IF S = {} THEN Num(0)
    ELSE LET i == CHOOSE j \in S : TRUE
         IN  FAdd(xs[i], SumOver(xs, S \ {i}))

RollingMean(xs, window, min_periods) ==
    Series([t \in 1..Len(xs) |->
        LET S == WindowObs(xs, window, t)
        IN  IF Cardinality(S) < min_periods \/ S = {} THEN NaN
            ELSE FDiv(SumOver(xs, S), Num(Cardinality(S)))])

RollingMin(xs, window, min_periods) ==
    Series([t \in 1..Len(xs) |->
        LET S == WindowObs(xs, window, t)
        IN  IF Cardinality(S) < min_periods \/ S = {} THEN NaN
            ELSE xs[CHOOSE i \in S : \A j \in S : FLe(xs[i], xs[j])]])

RollingMax(xs, window, min_periods) ==
    Series([t \in 1..Len(xs) |->
        LET S == WindowObs(xs, window, t)
        IN  IF Cardinality(S) < min_periods \/ S = {} THEN NaN
            ELSE xs[CHOOSE i \in S : \A j \in S : FLe(xs[j], xs[i])]])

-----------------------------------------------------------------------------
(* calculate_rsi                                                           *)

\* x.diff()
Diff(x) == Series([t \in 1..Len(x) |-> IF t = 1 THEN NaN ELSE FSub(x[t], x[t - 1])])

\* (delta.where(delta > 0, 0)).fillna(0)
Gain(x) ==
    LET delta == Diff(x)
    IN  Series([t \in 1..Len(x) |->
            LET w == IF FGt(delta[t], Num(0)) THEN delta[t] ELSE Num(0)
            IN  IF IsNaN(w) THEN Num(0) ELSE w])

\* (-delta.where(delta < 0, 0)).fillna(0)
Loss(x) ==
    LET delta == Diff(x)
    IN  Series([t \in 1..Len(x) |->
            LET w == FNeg(IF FLt(delta[t], Num(0)) THEN delta[t] ELSE Num(0))
            IN  IF IsNaN(w) THEN Num(0) ELSE w])

avg_gain(x, period) == RollingMean(Gain(x), period, 1)

avg_loss(x, period) == RollingMean(Loss(x), period, 1)

\* rsi.replace([np.inf, -np.inf], np.nan)
ReplaceInf(v) == IF IsInf(v) THEN NaN ELSE v

rsi_calc(x, period) ==
    LET ag == avg_gain(x, period)
        al == avg_loss(x, period)
    IN  Series([t \in 1..Len(x) |->
            LET rs  == FDiv(ag[t], al[t])
                rsi == FSub(Num(100), FDiv(Num(100), FAdd(Num(1), rs)))
            IN  ReplaceInf(rsi)])

\* df.groupby('ticker')['Close'].apply(rsi_calc).values: the per-ticker
\* series concatenated in group-key order
rsi_values(rows, period) ==
    LET keys == GroupKeys(rows)
    IN  ConcatAll([g \in 1..Len(keys) |->
                      rsi_calc(Col(GroupRows(rows, keys[g]), "Close"), period)])

\* the table calculate_rsi returns: the rows sorted by (ticker, Date) with the
\* RSI values assigned by position
calculate_rsi(t, period) ==
    LET sorted == SortRows(t.rows, <<"ticker", "Date">>)
    IN  SetCol([t EXCEPT !.rows = sorted], "RSI", rsi_values(sorted, period))

NoCall == [fn |-> "", arg |-> 0, raised |-> "", value |-> <<>>]

Returned(fn, arg, value) == [fn |-> fn, arg |-> arg, raised |-> "", value |-> value]

Raised(fn, arg, exc) == [fn |-> fn, arg |-> arg, raised |-> exc, value |-> <<>>]

\* df['Date'] = pd.to_datetime(df['Date']) on the caller's table
ConvertDate(t) ==
    SetCol(t, "Date", [i \in 1..Len(t.rows) |-> ToDatetime(t.rows[i].cells["Date"])])

CalculateRsi(period) ==
    /\ IF "Date" \notin df.columns
       THEN /\ ret' = Raised("calculate_rsi", period, "KeyError")
            /\ df' = df
       ELSE IF ~({"ticker", "Close"} \subseteq df.columns)
       THEN /\ ret' = Raised("calculate_rsi", period, "KeyError")
            /\ df' = ConvertDate(df)
       ELSE /\ df' = ConvertDate(df)
            /\ ret' = Returned("calculate_rsi", period, calculate_rsi(df', period))
    /\ UNCHANGED <<fetched, talib>>

-----------------------------------------------------------------------------
(* calculate_stochastic_oscillator                                         *)

\* a window that yields a value from its first observation on
MinPeriodsOne(window) == 1

\* rolling(window=w) without min_periods requires a full window
DefaultMinPeriods(window) == window

lowest_low(low, periods) == RollingMin(low, periods, DefaultMinPeriods(periods))

highest_high(high, periods) == RollingMax(high, periods, DefaultMinPeriods(periods))

\* ((Close - lowest_low) / (highest_high - lowest_low)) * 100
PercentK(close, ll, hh) ==
    Series([t \in 1..Len(close) |->
        FMul(FDiv(FSub(close[t], ll[t]), FSub(hh[t], ll[t])), Num(100))])

\* df['%K'].rolling(window=3).mean()
PercentD(k) == RollingMean(k, 3, DefaultMinPeriods(3))

\* np.where(%K > 80, 'Overbought', np.where(%K < 20, 'Oversold', 'Neutral'))
Status(k) ==
    Series([t \in 1..Len(k) |->
        IF FGt(k[t], Num(80)) THEN "Overbought"
        ELSE IF FLt(k[t], Num(20)) THEN "Oversold"
        ELSE "Neutral"])

\* the caller's table after lines 90-101, every column present
StochasticColumns(t, periods) ==
    LET ll == lowest_low(Col(t.rows, "Low"), periods)
        hh == highest_high(Col(t.rows, "High"), periods)
        k  == PercentK(Col(t.rows, "Close"), ll, hh)
    IN  SetCol(SetCol(SetCol(SetCol(SetCol(t, "lowest_low", ll), "highest_high", hh),
                             "%K", k), "%D", PercentD(k)), "Status", Status(k))

CalculateStochastic(periods) ==
    /\ IF "Low" \notin df.columns
       THEN /\ ret' = Raised("calculate_stochastic_oscillator", periods, "KeyError")
            /\ df' = df
       ELSE IF "High" \notin df.columns
       THEN /\ ret' = Raised("calculate_stochastic_oscillator", periods, "KeyError")
            /\ df' = SetCol(df, "lowest_low", lowest_low(Col(df.rows, "Low"), periods))
       ELSE IF "Close" \notin df.columns
       THEN /\ ret' = Raised("calculate_stochastic_oscillator", periods, "KeyError")
            /\ df' = SetCol(SetCol(df, "lowest_low",
                                   lowest_low(Col(df.rows, "Low"), periods)),
                            "highest_high", highest_high(Col(df.rows, "High"), periods))
       ELSE /\ df' = StochasticColumns(df, periods)
            /\ ret' = Returned("calculate_stochastic_oscillator", periods,
                               Project(df', {"%K", "%D", "Status"}))
    /\ UNCHANGED <<fetched, talib>>

-----------------------------------------------------------------------------
(* calculate_macd                                                          *)

slow_period == 26

fast_period == 12

signal_period == 9

\* the weighted mean ewm(span, adjust=True) would give at position t
RECURSIVE AdjustedSums(_, _, _)
AdjustedSums(x, q, t) ==
    IF t = 1 THEN <<x[1], Num(1)>>
    ELSE LET p == AdjustedSums(x, q, t - 1)
         IN  <<FAdd(x[t], FMul(q, p[1])), FAdd(Num(1), FMul(q, p[2]))>>

EwmMeanAdjusted(x, span) ==
    Series([t \in 1..Len(x) |->
        LET p == AdjustedSums(x, Rat(span - 1, span + 1), t)
        IN  FDiv(p[1], p[2])])

\* ewm(span=span, adjust=False).mean() at position t
RECURSIVE EwmAt(_, _, _)
EwmAt(x, span, t) ==
    IF t = 1 THEN x[1]
    ELSE FAdd(FMul(Rat(2, span + 1), x[t]),
              FMul(FSub(Num(1), Rat(2, span + 1)), EwmAt(x, span, t - 1)))

EwmMean(x, span) == Series([t \in 1..Len(x) |-> EwmAt(x, span, t)])

\* df.set_index('Date', inplace=True)
SetIndexDate(t) ==
    [columns    |-> t.columns \ {"Date"},
     index_name |-> "Date",
     rows       |-> [i \in 1..Len(t.rows) |->
                       [label |-> t.rows[i].cells["Date"],
                        cells |-> [c \in t.columns \ {"Date"} |-> t.rows[i].cells[c]]]]]

\* the caller's table after lines 189-191
MacdIndexed(t) == IF "Date" \in t.columns THEN SetIndexDate(ConvertDate(t)) ELSE t

\* group[['MACD', 'Signal_line', 'Ticker']] of one ticker's rows
MacdGroup(rows, ticker, slow, fast, signal) ==
    LET group  == GroupRows(rows, ticker)
        x      == Col(group, "Close")
        macd   == Series([t \in 1..Len(x) |->
                      FSub(EwmMean(x, fast)[t], EwmMean(x, slow)[t])])
        sig    == EwmMean(macd, signal)
    IN  [t \in 1..Len(group) |->
            [label |-> group[t].label,
             cells |-> [c \in {"MACD", "Signal_line", "Ticker"} |->
                          CASE c = "MACD"        -> macd[t]
                            [] c = "Signal_line" -> sig[t]
                            [] c = "Ticker"      -> ticker]]]

\* pd.concat(results) over the groups of groupby('ticker')
calculate_macd(t, slow, fast, signal) ==
    LET keys == GroupKeys(t.rows)
    IN  [columns    |-> {"MACD", "Signal_line", "Ticker"},
         index_name |-> t.index_name,
         rows       |-> ConcatAll([g \in 1..Len(keys) |->
                            MacdGroup(t.rows, keys[g], slow, fast, signal)])]

CalculateMacd ==
    /\ df' = MacdIndexed(df)
    /\ IF {"ticker", "Close"} \subseteq df'.columns
       THEN ret' = Returned("calculate_macd", 0,
                            calculate_macd(df', slow_period, fast_period, signal_period))
       ELSE ret' = Raised("calculate_macd", 0, "KeyError")
    /\ UNCHANGED <<fetched, talib>>

-----------------------------------------------------------------------------
(* calculate_cagr                                                          *)

IsLeap(y) == (y % 4 = 0 /\ y % 100 # 0) \/ y % 400 = 0

DaysBeforeMonth(m) == <<0, 31, 59, 90, 120, 151, 181, 212, 243, 273, 304, 334>>[m]

\* days from 0001-01-01 to the date
DayNumber(date) ==
    LET y == date[1] - 1
    IN  365 * y + (y \div 4) - (y \div 100) + (y \div 400)
        + DaysBeforeMonth(date[2])
        + (IF IsLeap(date[1]) /\ date[2] > 2 THEN 1 ELSE 0)
        + date[3] - 1

\* (end_date - start_date).days
DaysBetween(start, end) == DayNumber(end) - DayNumber(start)

None == [kind |-> "None"]

\* the float base ** exponent - 1, kept as its operands
PowMinusOne(base, exponent) == [kind |-> "float", base |-> base, exponent |-> exponent]

\* the value stored for one ticker (lines 158-170); 365.25 is 1461/4
TickerCagr(rows, ticker) ==
    LET ticker_data   == SortRows(GroupRows(rows, ticker), <<"Date">>)
        n             == Len(ticker_data)
        initial_value == ticker_data[1].cells["Close"]
        final_value   == ticker_data[n].cells["Close"]
        days          == DaysBetween(ticker_data[1].cells["Date"], ticker_data[n].cells["Date"])
        delta_years   == Rat(4 * days, 1461)
    IN  IF FGt(delta_years, Num(0)) /\ FGt(initial_value, Num(0))
        THEN PowMinusOne(FDiv(final_value, initial_value), FDiv(Num(1), delta_years))
        ELSE None

\* df['ticker'].unique()
Unique(rows) == {rows[i].cells["ticker"] : i \in 1..Len(rows)}

\* the dict calculate_cagr returns
calculate_cagr(t) == [ticker \in Unique(t.rows) |-> TickerCagr(t.rows, ticker)]

CalculateCagr ==
    /\ IF "Date" \notin df.columns
       THEN /\ ret' = Raised("calculate_cagr", 0, "KeyError")
            /\ df' = df
       ELSE /\ df' = ConvertDate(df)
            /\ IF {"ticker", "Close"} \subseteq df.columns
               THEN ret' = Returned("calculate_cagr", 0, calculate_cagr(df'))
               ELSE ret' = Raised("calculate_cagr", 0, "KeyError")
    /\ UNCHANGED <<fetched, talib>>

-----------------------------------------------------------------------------
(* calculate_historical_volatility, iterated to exhaustion                 *)

\* the start two months back with January and February wrapped into the
\* year before
StartTwoMonthsBack(max_date) ==
    IF max_date[2] > 2 THEN <<max_date[1], max_date[2] - 2, 1>>
    ELSE <<max_date[1] - 1, max_date[2] + 10, 1>>

\* pd.Timestamp(year, month - 2, 1) if month > 2 else pd.Timestamp(year - 1, 10, 1)
start_of_last_quarter(max_date) ==
    IF max_date[2] > 2 THEN <<max_date[1], max_date[2] - 2, 1>>
    ELSE <<max_date[1] - 1, 10, 1>>

\* df['Date'].max()
MaxDate(rows) ==
    LET dates == {rows[i].cells["Date"] : i \in 1..Len(rows)}
    IN  CHOOSE d \in dates : \A e \in dates : DateLe(e, d)

\* df[df['Date'] >= start_of_last_quarter]
last_quarter_data(rows) ==
    SelectSeq(rows, LAMBDA r : DateLe(start_of_last_quarter(MaxDate(rows)), r.cells["Date"]))

\* np.log of a float
Log(v) ==
    CASE IsNaN(v) -> NaN
      [] v.k = "pinf" -> PInf
      [] v.k = "ninf" -> NaN
      [] OTHER -> IF v.n < 0 THEN NaN
                  ELSE IF v.n = 0 THEN NInf
                  ELSE IF v.n = v.d THEN Num(0)
                  ELSE [k |-> "ln", n |-> v.n, d |-> v.d]

\* np.log(x / x.shift(1)): each row against the row above it in the table
LogReturns(x) ==
    Series([t \in 1..Len(x) |-> IF t = 1 THEN NaN ELSE Log(FDiv(x[t], x[t - 1]))])

\* Series.std(): sample standard deviation of the entries that are not NaN;
\* 0 when they are all equal, otherwise kept as the values it is taken over
Std(xs) ==
    LET obs == {i \in 1..Len(xs) : ~IsNaN(xs[i])}
        vals == {xs[i] : i \in obs}
    IN  IF Cardinality(obs) < 2 \/ \E v \in vals : IsInf(v) THEN NaN
        ELSE IF Cardinality(vals) = 1 THEN Num(0)
        ELSE [k |-> "std",
              of |-> [v \in vals |-> Cardinality({i \in obs : xs[i] = v})]]

\* Date.dt.to_period('M')
YearMonth(date) == <<date[1], date[2]>>

\* the filtered copy after lines 64-70
VolatilityFrame(t, column_name) ==
    LET filtered == last_quarter_data(t.rows)
        logged   == SetCol([t EXCEPT !.rows = filtered], "Log Returns",
                           LogReturns(Col(filtered, column_name)))
        sorted   == SortRows(logged.rows, <<"ticker", "Date">>)
    IN  SetCol([logged EXCEPT !.rows = sorted], "YearMonth",
               [i \in 1..Len(sorted) |-> YearMonth(sorted[i].cells["Date"])])

\* the first row of every (ticker, YearMonth) group, in group-key order
GroupHeads(rows) ==
    SortRows(SelectSeq(rows, LAMBDA r :
                \A i \in 1..Len(rows) :
                    (rows[i].cells["ticker"] = r.cells["ticker"]
                        /\ rows[i].cells["YearMonth"] = r.cells["YearMonth"])
                    => ~DateLt(rows[i].cells["Date"], r.cells["Date"])),
             <<"ticker", "YearMonth">>)

\* everything the generator yields
calculate_historical_volatility(t, column_name) ==
    LET rows  == VolatilityFrame(t, column_name).rows
        heads == GroupHeads(rows)
    IN  [g \in 1..Len(heads) |->
            LET group == SelectSeq(rows, LAMBDA r :
                            /\ r.cells["ticker"] = heads[g].cells["ticker"]
                            /\ r.cells["YearMonth"] = heads[g].cells["YearMonth"])
            IN  [Name      |-> heads[g].cells["ticker"],
                 YearMonth |-> heads[g].cells["YearMonth"],
                 Monthly_Volatility |-> Std(Col(group, "Log Returns"))]]

CalculateHistoricalVolatility ==
    /\ IF "Date" \notin df.columns
       THEN /\ ret' = Raised("calculate_historical_volatility", 0, "KeyError")
            /\ df' = df
       ELSE /\ df' = ConvertDate(df)
            /\ IF {"ticker", "Close"} \subseteq df.columns
               THEN ret' = Returned("calculate_historical_volatility", 0,
                                    calculate_historical_volatility(df', "Close"))
               ELSE ret' = Raised("calculate_historical_volatility", 0, "KeyError")
    /\ UNCHANGED <<fetched, talib>>

-----------------------------------------------------------------------------
(* detect_divergences                                                      *)

DivWindow == 14

\* the weaker test that only looks for the Close column
DivergencePreconditionCloseOnly(columns) == "Close" \in columns

\* 'Close' not in df.columns or 'MFI' not in df.columns  =>  ValueError
DivergencePrecondition(columns) == "Close" \in columns /\ "MFI" \in columns

\* (a == b) & (c != d), elementwise
EqAndNe(a, b, c, d) ==
    Series([t \in 1..Len(a) |-> FEq(a[t], b[t]) /\ FNe(c[t], d[t])])

\* the caller's table after lines 32-39, both columns present
DivergenceColumns(t) ==
    LET close      == Col(t.rows, "Close")
        mfi        == Col(t.rows, "MFI")
        price_high == RollingMax(close, DivWindow, 1)
        mfi_high   == RollingMax(mfi, DivWindow, 1)
        price_low  == RollingMin(close, DivWindow, 1)
        mfi_low    == RollingMin(mfi, DivWindow, 1)
    IN  SetCol(SetCol(SetCol(SetCol(SetCol(SetCol(t,
            "Price_High", price_high), "MFI_High", mfi_high),
            "Price_Low", price_low), "MFI_Low", mfi_low),
            "Bull_Div", EqAndNe(close, price_low, mfi, mfi_low)),
            "Bear_Div", EqAndNe(close, price_high, mfi, mfi_high))

DetectDivergences ==
    /\ IF ~DivergencePrecondition(df.columns)
       THEN /\ ret' = Raised("detect_divergences", 0, "ValueError")
            /\ df' = df
       ELSE IF "Close" \notin df.columns
       THEN /\ ret' = Raised("detect_divergences", 0, "KeyError")
            /\ df' = df
       ELSE IF "MFI" \notin df.columns
       THEN /\ ret' = Raised("detect_divergences", 0, "KeyError")
            /\ df' = SetCol(df, "Price_High",
                            RollingMax(Col(df.rows, "Close"), DivWindow, 1))
       ELSE /\ df' = DivergenceColumns(df)
            /\ ret' = Returned("detect_divergences", 0, df')
    /\ UNCHANGED <<fetched, talib>>

-----------------------------------------------------------------------------
(* helper.detect_candlestick_patterns.  The TA-Lib functions are library  *)
(* code: talib holds, bar by bar, the integer each of them computes for   *)
(* the fetched bars (0 where it sees no pattern).                          *)

\* the integers one bar can get: 100 for a bullish pattern, -100 for a bearish
\* one, both for CDLENGULFING
PatternBar ==
    [CDLDOJI : {0, 100}, CDLHAMMER : {0, 100}, CDLHANGINGMAN : {0, -100},
     CDLENGULFING : {-100, 0, 100}, CDLMORNINGSTAR : {0, 100},
     CDLEVENINGSTAR : {0, -100}]

\* the library sees no pattern at any bar
NoPattern(t) ==
    [i \in 1..Len(t.rows) |->
        [CDLDOJI |-> 0, CDLHAMMER |-> 0, CDLHANGINGMAN |-> 0, CDLENGULFING |-> 0,
         CDLMORNINGSTAR |-> 0, CDLEVENINGSTAR |-> 0]]

\* both engulfing flags taken from the positive sign
CandlestickColumnsSameSign(t, out) ==
    LET n == Len(t.rows)
    IN  SetCol(SetCol(SetCol(SetCol(SetCol(SetCol(SetCol(t,
            "Doji", Series([i \in 1..n |-> out[i].CDLDOJI # 0])),
            "Hammer", Series([i \in 1..n |-> out[i].CDLHAMMER # 0])),
            "Hanging_Man", Series([i \in 1..n |-> out[i].CDLHANGINGMAN # 0])),
            "Bullish_Engulfing", Series([i \in 1..n |-> out[i].CDLENGULFING > 0])),
            "Bearish_Engulfing", Series([i \in 1..n |-> out[i].CDLENGULFING > 0])),
            "Morning_Star", Series([i \in 1..n |-> out[i].CDLMORNINGSTAR # 0])),
            "Evening_Star", Series([i \in 1..n |-> out[i].CDLEVENINGSTAR # 0]))

\* the caller's table after lines 61-71
CandlestickColumns(t, out) ==
    LET n == Len(t.rows)
    IN  SetCol(SetCol(SetCol(SetCol(SetCol(SetCol(SetCol(t,
            "Doji", Series([i \in 1..n |-> out[i].CDLDOJI # 0])),
            "Hammer", Series([i \in 1..n |-> out[i].CDLHAMMER # 0])),
            "Hanging_Man", Series([i \in 1..n |-> out[i].CDLHANGINGMAN # 0])),
            "Bullish_Engulfing", Series([i \in 1..n |-> out[i].CDLENGULFING > 0])),
            "Bearish_Engulfing", Series([i \in 1..n |-> out[i].CDLENGULFING < 0])),
            "Morning_Star", Series([i \in 1..n |-> out[i].CDLMORNINGSTAR # 0])),
            "Evening_Star", Series([i \in 1..n |-> out[i].CDLEVENINGSTAR # 0]))

DetectCandlestickPatterns ==
    /\ IF ~({"Open", "High", "Low", "Close"} \subseteq df.columns)
       THEN /\ ret' = Raised("detect_candlestick_patterns", 0, "KeyError")
            /\ df' = df
       ELSE /\ df' = CandlestickColumns(df, talib)
            /\ ret' = Returned("detect_candlestick_patterns", 0, df')
    /\ UNCHANGED <<fetched, talib>>

-----------------------------------------------------------------------------
(* The table fetch_data returns                                            *)

MaxRows == 3

MaxPeriod == 2

Periods == 1..MaxPeriod

BaseColumns == {"Date", "High", "Low", "Close", "ticker"}

\* pd.DataFrame(all_data_rows): one row per stored bar, RangeIndex labels
FetchedTable(bars) ==
    [columns    |-> BaseColumns,
     index_name |-> "",
     rows       |-> [i \in 1..Len(bars) |->
                       [label |-> i - 1,
                        cells |-> [c \in BaseColumns |->
                                     CASE c = "Date"   -> bars[i].Date
                                       [] c = "High"   -> Num(bars[i].High)
                                       [] c = "Low"    -> Num(bars[i].Low)
                                       [] c = "Close"  -> Num(bars[i].Close)
                                       [] c = "ticker" -> bars[i].ticker]]]]

SeqsUpTo(S, n) == UNION {[1..k -> S] : k \in 1..n}

\* no ticker has two bars of the same date
DistinctKeys(bars) ==
    \A i, j \in 1..Len(bars) :
        (bars[i].ticker = bars[j].ticker /\ bars[i].Date = bars[j].Date) => i = j

BarSeqs(tickers, dates, highs, lows, closes, n) ==
    {b \in SeqsUpTo([ticker : tickers, Date : dates, High : highs, Low : lows,
                     Close : closes], n) : DistinctKeys(b)}

InitWith(bars) ==
    /\ fetched \in {FetchedTable(b) : b \in bars}
    /\ df = fetched
    /\ ret = NoCall
    /\ talib = NoPattern(fetched)

-----------------------------------------------------------------------------
(* calculate_rsi on tables of two tickers in any row order                 *)

RsiDates == {<<2024, 1, 2>>, <<2024, 1, 3>>, <<2024, 2, 1>>}

InitRsi == InitWith(BarSeqs({"AAPL", "AMZN"}, RsiDates, {3}, {1}, {1, 2, 3}, MaxRows))

NextRsi == \E p \in Periods : CalculateRsi(p)

SpecRsi == InitRsi /\ [][NextRsi]_vars

\* position of row i within its ticker's group (1-based)
PosInGroup(rows, i) ==
    Cardinality({j \in 1..i : rows[j].cells["ticker"] = rows[i].cells["ticker"]})

\* the Close series of the ticker of row i
GroupClose(rows, i) == Col(GroupRows(rows, rows[i].cells["ticker"]), "Close")

RsiReturned == ret.fn = "calculate_rsi" /\ ret.raised = ""

\* C1: wherever the windowed average loss is 0 the RSI is exactly 100
\* (first bar of a ticker and constant series included), never undefined.
C1_RsiIs100WhereAvgLossZero ==
    RsiReturned =>
        \A i \in 1..Len(ret.value.rows) :
            LET rows == ret.value.rows
                x    == GroupClose(rows, i)
            IN  avg_loss(x, ret.arg)[PosInGroup(rows, i)] = Num(0)
                    => rows[i].cells["RSI"] = Num(100)

\* mean of the last min(t, period) entries of xs (t is 1-based)
PrefixMean(xs, period, t) ==
    LET m == IF t < period THEN t ELSE period
    IN  FDiv(SumOver(xs, (t - m + 1)..t), Num(m))

\* C2: avgGain and avgLoss are means over the last min(t+1, period) bars and
\* no RSI value is left undefined.
C2_RsiMinSampleOneNoUndefined ==
    RsiReturned =>
        \A i \in 1..Len(ret.value.rows) :
            LET rows == ret.value.rows
                x    == GroupClose(rows, i)
                t    == PosInGroup(rows, i)
            IN  /\ avg_gain(x, ret.arg)[t] = PrefixMean(Gain(x), ret.arg, t)
                /\ avg_loss(x, ret.arg)[t] = PrefixMean(Loss(x), ret.arg, t)
                /\ ~IsNaN(rows[i].cells["RSI"])

-----------------------------------------------------------------------------
(* calculate_stochastic_oscillator on one ticker's bars in date order, and *)
(* both oscillators on the same tables                                     *)

MaxStochRows == 4

\* the ranges 1 (High 2, Low 1), 0 (High 2, Low 2) and 2 (High 3, Low 1), each
\* with a close of 2 and of 3
StochBarValues ==
    {b \in [High : {2, 3}, Low : {1, 2}, Close : {2, 3}] :
        ~(b.High = 3 /\ b.Low = 2)}

\* bar i of the series is dated January i
StochBars(n) ==
    {[i \in 1..Len(b) |->
        [ticker |-> "AAPL", Date |-> <<2024, 1, i>>, High |-> b[i].High,
         Low |-> b[i].Low, Close |-> b[i].Close]] :
     b \in SeqsUpTo(StochBarValues, n)}

InitStoch == InitWith(StochBars(MaxStochRows))

InitOscillators == InitWith(StochBars(MaxRows))

NextStoch == \E p \in Periods : CalculateStochastic(p)

SpecStoch == InitStoch /\ [][NextStoch]_vars

NextOscillators == NextStoch \/ NextRsi

SpecOscillators == InitOscillators /\ [][NextOscillators]_vars

StochReturned == ret.fn = "calculate_stochastic_oscillator" /\ ret.raised = ""

InClosed0To100(v) == FLe(Num(0), v) /\ FLe(v, Num(100))

\* C3: every defined %K, %D and RSI lies in [0, 100], and a position whose
\* window is incomplete is never reported as 0.
C3_OscillatorsWithin0To100 ==
    /\ StochReturned =>
           \A i \in 1..Len(ret.value.rows) :
               LET c == ret.value.rows[i].cells
               IN  /\ ~IsNaN(c["%K"]) => InClosed0To100(c["%K"])
                   /\ ~IsNaN(c["%D"]) => InClosed0To100(c["%D"])
                   /\ i < ret.arg => c["%K"] # Num(0)
                   /\ i < ret.arg + 2 => c["%D"] # Num(0)
    /\ RsiReturned =>
           \A i \in 1..Len(ret.value.rows) :
               LET v == ret.value.rows[i].cells["RSI"]
               IN  ~IsNaN(v) => InClosed0To100(v)

\* every full trailing window has highestHigh > lowestLow
PositiveRanges(t, periods) ==
    \A i \in periods..Len(t.rows) :
        FGt(t.rows[i].cells["highest_high"], t.rows[i].cells["lowest_low"])

\* C4: with window P and positive ranges, %K is undefined at exactly the
\* first P-1 positions and %D at exactly the first P+1 positions.
C4_StochasticWarmUp ==
    (StochReturned /\ PositiveRanges(df, ret.arg)) =>
        \A i \in 1..Len(ret.value.rows) :
            LET c == ret.value.rows[i].cells
            IN  /\ IsNaN(c["%K"]) <=> i <= ret.arg - 1
                /\ IsNaN(c["%D"]) <=> i <= ret.arg + 1
                /\ i > ret.arg - 1 => IsFinite(c["%K"])
                /\ i > ret.arg + 1 => IsFinite(c["%D"])

C4_Witness ==
    /\ StochReturned
    /\ PositiveRanges(df, ret.arg)
    /\ ret.arg = 2
    /\ Len(ret.value.rows) = 4
    /\ IsNaN(ret.value.rows[1].cells["%K"])
    /\ IsFinite(ret.value.rows[2].cells["%K"])
    /\ IsNaN(ret.value.rows[3].cells["%D"])
    /\ IsFinite(ret.value.rows[4].cells["%D"])

\* C5: wherever highestHigh - lowestLow = 0 the %K is undefined, whatever the
\* Close, and the Status is Neutral.
C5_ZeroRangeUndefined ==
    StochReturned =>
        \A i \in 1..Len(df.rows) :
            LET c == df.rows[i].cells
            IN  FSub(c["highest_high"], c["lowest_low"]) = Num(0)
                    => IsNaN(c["%K"]) /\ c["Status"] = "Neutral"

-----------------------------------------------------------------------------
(* calculate_macd on tables of two tickers in any row order                *)

InitMacd == InitWith(BarSeqs({"AAPL", "AMZN"}, RsiDates, {3}, {1}, {1, 2, 3}, MaxRows))

NextMacd == CalculateMacd

SpecMacd == InitMacd /\ [][NextMacd]_vars

MacdReturned == ret.fn = "calculate_macd" /\ ret.raised = ""

RECURSIVE Power(_, _)
Power(q, e) == IF e = 0 THEN Num(1) ELSE FMul(q, Power(q, e - 1))

\* the recurrence EMA[1] = x[1], EMA[t] = a*x[t] + (1-a)*EMA[t-1], a = 2/(span+1),
\* unrolled: (1-a)^(t-1) * x[1] + sum over j in 2..t of a * (1-a)^(t-j) * x[j]
EmaUnrolled(x, span, t) ==
    LET a == Rat(2, span + 1)
        q == Rat(span - 1, span + 1)
        terms == [j \in 1..t |->
                    IF j = 1 THEN FMul(Power(q, t - 1), x[1])
                    ELSE FMul(FMul(a, Power(q, t - j)), x[j])]
    IN  SumOver(terms, 1..t)

\* the rows of a ticker in the caller's table, by the row the result row i
\* of that ticker stands for
MacdInput(i) ==
    Col(GroupRows(fetched.rows, ret.value.rows[i].cells["Ticker"]), "Close")

MacdPos(i) ==
    Cardinality({j \in 1..i :
        ret.value.rows[j].cells["Ticker"] = ret.value.rows[i].cells["Ticker"]})

\* C6: per ticker, EMA_fast, EMA_slow and Signal follow the recurrence seeded
\* from the ticker's own first bar; MACD and Signal_line are defined at every
\* bar and are 0 at each ticker's first bar.
C6_MacdRecurrencePerTicker ==
    MacdReturned =>
        /\ Len(ret.value.rows) = Len(fetched.rows)
        /\ \A i \in 1..Len(ret.value.rows) :
            LET c == ret.value.rows[i].cells
                x == MacdInput(i)
                t == MacdPos(i)
            IN  /\ IsFinite(c["MACD"]) /\ IsFinite(c["Signal_line"])
                /\ c["MACD"] = FSub(EmaUnrolled(x, fast_period, t),
                                    EmaUnrolled(x, slow_period, t))
                /\ t = 1 => c["MACD"] = Num(0) /\ c["Signal_line"] = Num(0)
                /\ t > 1 =>
                     c["Signal_line"] =
                        FAdd(FMul(Rat(2, signal_period + 1), c["MACD"]),
                             FMul(Rat(signal_period - 1, signal_period + 1),
                                  ret.value.rows[i - 1].cells["Signal_line"]))

\* two tickers with interleaved rows, the first with a changing close
C6_Witness ==
    /\ MacdReturned
    /\ Len(ret.value.rows) = 3
    /\ ret.value.rows[1].cells["Ticker"] = "AAPL"
    /\ ret.value.rows[3].cells["Ticker"] = "AMZN"
    /\ fetched.rows[1].cells["ticker"] = "AAPL"
    /\ fetched.rows[2].cells["ticker"] = "AMZN"
    /\ fetched.rows[2].cells["Close"] # fetched.rows[1].cells["Close"]
    /\ fetched.rows[3].cells["Close"] # fetched.rows[1].cells["Close"]
    /\ ret.value.rows[2].cells["MACD"] # Num(0)
    /\ ret.value.rows[3].cells["MACD"] = Num(0)

-----------------------------------------------------------------------------
(* calculate_cagr on tables of two tickers over two calendar years         *)

CagrDates == {<<2023, 1, 2>>, <<2023, 12, 29>>, <<2024, 1, 2>>}

InitCagr == InitWith(BarSeqs({"AAPL", "AMZN"}, CagrDates, {3}, {0}, {0, 1, 2}, MaxRows))

NextCagr == CalculateCagr

SpecCagr == InitCagr /\ [][NextCagr]_vars

CagrReturned == ret.fn = "calculate_cagr" /\ ret.raised = ""

\* the bars of a ticker in a calendar year, by date
YearBars(ticker, year) ==
    SortRows(SelectSeq(fetched.rows, LAMBDA r :
                 r.cells["ticker"] = ticker /\ r.cells["Date"][1] = year), <<"Date">>)

\* the value the claim gives a ticker-year
YearCagr(ticker, year) ==
    LET bars    == YearBars(ticker, year)
        n       == Len(bars)
        initial == bars[1].cells["Close"]
        final   == bars[n].cells["Close"]
        days    == DaysBetween(bars[1].cells["Date"], bars[n].cells["Date"])
    IN  IF n < 2 \/ days <= 0 \/ ~FGt(initial, Num(0)) THEN None
        ELSE PowMinusOne(FDiv(final, initial), Rat(1461, 4 * days))

\* what the result holds for a ticker-year: the year's entry where the
\* ticker's value is a mapping by year, else the ticker's value itself
YearEntry(result, ticker, year) ==
    IF result[ticker].kind = "dict" THEN result[ticker].items[year] ELSE result[ticker]

\* C7: the result maps ticker -> year -> optional value, computed from the
\* first and last bar of that year; undefined with fewer than 2 bars in the
\* year, deltaYears <= 0 or initial close <= 0.
C7_CagrPerTickerYear ==
    CagrReturned =>
        \A i \in 1..Len(fetched.rows) :
            LET ticker == fetched.rows[i].cells["ticker"]
                year   == fetched.rows[i].cells["Date"][1]
            IN  YearEntry(ret.value, ticker, year) = YearCagr(ticker, year)

-----------------------------------------------------------------------------
(* calculate_historical_volatility on tables of two tickers over the       *)
(* months around a quarter boundary                                        *)

VolDates == {<<2023, 10, 2>>, <<2023, 12, 29>>, <<2024, 1, 2>>, <<2024, 1, 3>>,
             <<2024, 3, 1>>}

InitVol == InitWith(BarSeqs({"AAPL", "AMZN"}, VolDates, {3}, {1}, {1, 2}, MaxRows))

NextVol == CalculateHistoricalVolatility

SpecVol == InitVol /\ [][NextVol]_vars

VolReturned == ret.fn = "calculate_historical_volatility" /\ ret.raised = ""

\* the input bars of a ticker in a calendar month
MonthBars(ticker, ym) ==
    {i \in 1..Len(fetched.rows) :
        /\ fetched.rows[i].cells["ticker"] = ticker
        /\ YearMonth(fetched.rows[i].cells["Date"]) = ym}

\* the (ticker, year-month) pairs of the yielded samples
SampleKeys == {<<ret.value[g].Name, ret.value[g].YearMonth>> : g \in 1..Len(ret.value)}

\* row i is not the earliest bar of its ticker, so it has a log return
HasReturn(i) ==
    \E j \in 1..Len(fetched.rows) :
        /\ fetched.rows[j].cells["ticker"] = fetched.rows[i].cells["ticker"]
        /\ DateLt(fetched.rows[j].cells["Date"], fetched.rows[i].cells["Date"])

\* C9 as claimed: exactly one sample for each (ticker, year-month) of the
\* input that contains at least one log return, and none for any other group.
C9_OneSamplePerGroupWithReturn ==
    VolReturned =>
        /\ Cardinality(SampleKeys) = Len(ret.value)
        /\ SampleKeys =
             {<<fetched.rows[i].cells["ticker"], YearMonth(fetched.rows[i].cells["Date"])>> :
                 i \in {j \in 1..Len(fetched.rows) : HasReturn(j)}}

\* the first day of the month two months before the latest date's month,
\* or 1 October of the year before when that month is January or February
QuarterStart ==
    LET latest == CHOOSE d \in {fetched.rows[i].cells["Date"] : i \in 1..Len(fetched.rows)} :
                      \A i \in 1..Len(fetched.rows) : DateLe(fetched.rows[i].cells["Date"], d)
    IN  IF latest[2] \in {1, 2} THEN <<latest[1] - 1, 10, 1>>
        ELSE <<latest[1], latest[2] - 2, 1>>

\* C9 amended: exactly one sample for each (ticker, year-month) that has a
\* bar dated on or after the start of the last quarter, with or without a
\* return in the group, and none for any other group.
C9_OneSamplePerLastQuarterGroup ==
    VolReturned =>
        /\ Cardinality(SampleKeys) = Len(ret.value)
        /\ SampleKeys =
             {<<fetched.rows[i].cells["ticker"], YearMonth(fetched.rows[i].cells["Date"])>> :
                 i \in {j \in 1..Len(fetched.rows) :
                           DateLe(QuarterStart, fetched.rows[j].cells["Date"])}}

\* a bar that has a return is dated before the quarter start, so its month
\* is dropped, and the group that is yielded holds no return at all
C9_Witness ==
    /\ VolReturned
    /\ Len(fetched.rows) = 3
    /\ \E i \in 1..3 : HasReturn(i) /\ DateLt(fetched.rows[i].cells["Date"], QuarterStart)
    /\ Len(ret.value) = 1
    /\ IsNaN(ret.value[1].Monthly_Volatility)

-----------------------------------------------------------------------------
(* calculate_historical_volatility on tables whose bars all fall in one    *)
(* calendar month                                                          *)

MaxMonthRows == 4

MonthDates == {<<2024, 1, 2>>, <<2024, 1, 3>>, <<2024, 1, 4>>}

InitVolMonth ==
    InitWith(BarSeqs({"AAPL", "AMZN"}, MonthDates, {3}, {1}, {1, 2}, MaxMonthRows))

SpecVolMonth == InitVolMonth /\ [][NextVol]_vars

\* C8: a ticker whose close is the same on every bar of a month, with at
\* least 2 returns in that month's group, has volatility 0 for that month,
\* whatever the closes of the preceding month or of other tickers are.
C8_ConstantMonthZeroVolatility ==
    VolReturned =>
        \A g \in 1..Len(ret.value) :
            LET bars == MonthBars(ret.value[g].Name, ret.value[g].YearMonth)
            IN  (/\ \A i, j \in bars :
                        fetched.rows[i].cells["Close"] = fetched.rows[j].cells["Close"]
                 /\ Cardinality({i \in bars : HasReturn(i)}) >= 2)
                => ret.value[g].Monthly_Volatility = Num(0)

-----------------------------------------------------------------------------
(* detect_divergences on one ticker's bars with an MFI column, and on the  *)
(* same tables without the Close or the MFI column                         *)

\* the MFI column the caller adds before the call: undefined, or a value
MfiValues == {NaN, Num(30), Num(70)}

DivBars ==
    {[i \in 1..Len(b) |->
        [ticker |-> "AAPL", Date |-> <<2024, 1, i>>, High |-> 3, Low |-> 1,
         Close |-> b[i].Close, MFI |-> b[i].MFI]] :
     b \in SeqsUpTo([Close : {1, 2, 3}, MFI : MfiValues], MaxRows)}

\* df['MFI'] = ... on the fetched table, then any of Close and MFI removed
DivTable(bars, missing) ==
    LET t == SetCol(FetchedTable(bars), "MFI", [i \in 1..Len(bars) |-> bars[i].MFI])
    IN  Project(t, t.columns \ missing)

InitDiv ==
    /\ fetched \in {DivTable(b, m) : b \in DivBars, m \in SUBSET {"Close", "MFI"}}
    /\ df = fetched
    /\ ret = NoCall
    /\ talib = NoPattern(fetched)

NextDiv == DetectDivergences

SpecDiv == InitDiv /\ [][NextDiv]_vars

\* C10: on a table lacking the Close or the MFI column the call fails with an
\* error at once and the table is left exactly as it was.
C10_MissingColumnFailsWithoutChange ==
    [][(DetectDivergences /\ ~({"Close", "MFI"} \subseteq df.columns))
          => (ret'.raised = "ValueError" /\ df' = df)]_vars

C10_Witness ==
    /\ ret.fn = "detect_divergences"
    /\ ret.raised = "ValueError"
    /\ "Close" \in df.columns
    /\ "MFI" \notin df.columns
    /\ Len(df.rows) = 2
    /\ df.columns \cap {"Price_High", "MFI_High", "Price_Low", "MFI_Low",
                        "Bull_Div", "Bear_Div"} = {}

DivReturned == ret.fn = "detect_divergences" /\ ret.raised = ""

\* the closes fall from every bar to the next
StrictlyDecreasing(x) ==
    \A t \in 2..Len(x) : IsFinite(x[t]) /\ IsFinite(x[t - 1]) /\ FLt(x[t], x[t - 1])

\* one defined value at every bar
Flat(x) == \A t \in 1..Len(x) : IsFinite(x[t]) /\ x[t] = x[1]

\* C11: on a strictly decreasing Close series with a flat, defined MFI series
\* Bull_Div is true at every bar after the first.
C11_BullDivOnDecreasingClose ==
    (/\ DivReturned
     /\ StrictlyDecreasing(Col(fetched.rows, "Close"))
     /\ Flat(Col(fetched.rows, "MFI")))
        => \A t \in 2..Len(ret.value.rows) : ret.value.rows[t].cells["Bull_Div"]

\* C17: at a bar whose MFI is not-a-number neither Bull_Div nor Bear_Div is
\* set.
C17_NoDivergenceWhereMfiUndefined ==
    DivReturned =>
        \A t \in 1..Len(ret.value.rows) :
            IsNaN(ret.value.rows[t].cells["MFI"]) =>
                /\ ~ret.value.rows[t].cells["Bull_Div"]
                /\ ~ret.value.rows[t].cells["Bear_Div"]

-----------------------------------------------------------------------------
(* detect_candlestick_patterns on one ticker's bars                        *)

MaxCandleRows == 2

MaxPatternsPerBar == 2

\* the library outputs with at most MaxPatternsPerBar patterns seen at one bar
PatternBars ==
    {b \in PatternBar :
        Cardinality({f \in DOMAIN b : b[f] # 0}) <= MaxPatternsPerBar}

CandleBars ==
    {[i \in 1..n |->
        [ticker |-> "AAPL", Date |-> <<2024, 1, i>>, High |-> 3, Low |-> 1,
         Close |-> 2]] : n \in 1..MaxCandleRows}

\* the fetched table with its Open column
CandleTable(bars) ==
    SetCol(FetchedTable(bars), "Open", [i \in 1..Len(bars) |-> Num(2)])

InitCandle ==
    /\ fetched \in {CandleTable(b) : b \in CandleBars}
    /\ df = fetched
    /\ ret = NoCall
    /\ talib \in [1..Len(fetched.rows) -> PatternBars]

NextCandle == DetectCandlestickPatterns

SpecCandle == InitCandle /\ [][NextCandle]_vars

CandleReturned == ret.fn = "detect_candlestick_patterns" /\ ret.raised = ""

PatternFlags ==
    {"Doji", "Hammer", "Hanging_Man", "Bullish_Engulfing", "Bearish_Engulfing",
     "Morning_Star", "Evening_Star"}

\* the library value a flag is derived from
Measure(flag, out) ==
    CASE flag = "Doji"              -> out.CDLDOJI
      [] flag = "Hammer"            -> out.CDLHAMMER
      [] flag = "Hanging_Man"       -> out.CDLHANGINGMAN
      [] flag = "Bullish_Engulfing" -> out.CDLENGULFING
      [] flag = "Bearish_Engulfing" -> out.CDLENGULFING
      [] flag = "Morning_Star"      -> out.CDLMORNINGSTAR
      [] flag = "Evening_Star"      -> out.CDLEVENINGSTAR

\* C16: every flag of every bar is a boolean, false where its measure is 0;
\* Bullish_Engulfing is true exactly where the engulfing measure is positive,
\* Bearish_Engulfing exactly where it is negative, never both on one bar.
C16_PatternFlagsBoolean ==
    CandleReturned =>
        \A i \in 1..Len(ret.value.rows) :
            LET c == ret.value.rows[i].cells
            IN  /\ \A f \in PatternFlags :
                    /\ c[f] \in BOOLEAN
                    /\ Measure(f, talib[i]) = 0 => ~c[f]
                /\ c["Bullish_Engulfing"] <=> talib[i].CDLENGULFING > 0
                /\ c["Bearish_Engulfing"] <=> talib[i].CDLENGULFING < 0
                /\ ~(c["Bullish_Engulfing"] /\ c["Bearish_Engulfing"])

\* two bars: a bearish engulfing at the first, a bullish engulfing and a doji
\* at the second
C16_Witness ==
    /\ CandleReturned
    /\ Len(ret.value.rows) = 2
    /\ talib[2].CDLENGULFING > 0
    /\ talib[1].CDLENGULFING < 0
    /\ ret.value.rows[2].cells["Doji"]
    /\ ~ret.value.rows[1].cells["Doji"]

-----------------------------------------------------------------------------
(* Any sequence of indicator calls on one table                            *)

Init == InitWith(BarSeqs({"AAPL", "AMZN"}, RsiDates, {3}, {1}, {1, 2}, MaxRows))

Next ==
    \/ \E p \in Periods : CalculateRsi(p)
    \/ \E p \in Periods : CalculateStochastic(p)
    \/ CalculateMacd
    \/ CalculateCagr
    \/ CalculateHistoricalVolatility
    \/ DetectDivergences
    \/ DetectCandlestickPatterns

Spec == Init /\ [][Next]_vars

\* what each call returns when it is the first call on the fetched table
FirstRsi(t, period) == calculate_rsi(ConvertDate(t), period)

FirstStochastic(t, periods) ==
    Project(StochasticColumns(t, periods), {"%K", "%D", "Status"})

FirstMacd(t) == calculate_macd(MacdIndexed(t), slow_period, fast_period, signal_period)

FirstCagr(t) == calculate_cagr(ConvertDate(t))

FirstVolatility(t) == calculate_historical_volatility(ConvertDate(t), "Close")

FirstOutcome(fn, arg) ==
    CASE fn = "calculate_rsi" -> Returned(fn, arg, FirstRsi(fetched, arg))
      [] fn = "calculate_stochastic_oscillator" ->
             Returned(fn, arg, FirstStochastic(fetched, arg))
      [] fn = "calculate_macd" -> Returned(fn, arg, FirstMacd(fetched))
      [] fn = "calculate_cagr" -> Returned(fn, arg, FirstCagr(fetched))
      [] fn = "calculate_historical_volatility" ->
             Returned(fn, arg, FirstVolatility(fetched))
      [] fn = "detect_divergences" ->
             IF DivergencePrecondition(fetched.columns)
             THEN Returned(fn, arg, DivergenceColumns(fetched))
             ELSE Raised(fn, arg, "ValueError")
      [] fn = "detect_candlestick_patterns" ->
             IF {"Open", "High", "Low", "Close"} \subseteq fetched.columns
             THEN Returned(fn, arg, CandlestickColumns(fetched, talib))
             ELSE Raised(fn, arg, "KeyError")

\* two tables with the same index, columns and rows
SameTable(x, y) ==
    /\ x.index_name = y.index_name
    /\ x.columns = y.columns
    /\ x.rows = y.rows

\* the calls that return a table
TableCalls ==
    {"calculate_rsi", "calculate_stochastic_oscillator", "calculate_macd",
     "detect_divergences", "detect_candlestick_patterns"}

\* two outcomes of one call: the same error, or the same returned value
SameOutcome(r, o) ==
    /\ r.raised = o.raised
    /\ r.raised = "" =>
           IF r.fn \in TableCalls THEN SameTable(r.value, o.value)
           ELSE r.value = o.value

\* C12: whatever has been called, the caller's table has the columns, the
\* index and the cells it was fetched with.
C12_CallerTableNotMutated == df = fetched

\* C13: every call, wherever it stands in a sequence of calls on the table,
\* has the outcome it has as the first call on the fetched table.
C13_SameResultInAnySequence ==
    ret # NoCall => SameOutcome(ret, FirstOutcome(ret.fn, ret.arg))


\* the rows of a table, or the samples of a sequence, as a set
RowSet(t) == {t.rows[i] : i \in 1..Len(t.rows)}

Samples(q) == {q[i] : i \in 1..Len(q)}

\* the same rows, each with its label, in ascending date order per ticker
SortedInput(t) == [t EXCEPT !.rows = SortRows(t.rows, <<"ticker", "Date">>)]

\* the call was made on the table as fetched
FirstCall ==
    /\ ret # NoCall
    /\ ret.raised = ""
    /\ SameOutcome(ret, FirstOutcome(ret.fn, ret.arg))

\* C14: whatever the order of the rows, each row (each ticker and date) gets
\* the value it gets on the table sorted by date per ticker.
C14_RowOrderIrrelevant ==
    FirstCall =>
        /\ ret.fn = "calculate_macd" =>
               RowSet(ret.value) = RowSet(FirstMacd(SortedInput(fetched)))
        /\ ret.fn = "calculate_stochastic_oscillator" =>
               RowSet(ret.value) = RowSet(FirstStochastic(SortedInput(fetched), ret.arg))
        /\ ret.fn = "calculate_historical_volatility" =>
               Samples(ret.value) = Samples(FirstVolatility(SortedInput(fetched)))
        /\ ret.fn = "calculate_rsi" =>
               RowSet(ret.value) = RowSet(FirstRsi(SortedInput(fetched), ret.arg))

\* the rows of one ticker alone
OnlyTicker(t, a) ==
    [t EXCEPT !.rows = SelectSeq(t.rows, LAMBDA r : r.cells["ticker"] = a)]

\* C15: the values of a ticker are those the call gives on that ticker's rows
\* alone, whatever the rows of the other tickers are.
C15_PerTickerIndependence ==
    FirstCall =>
        \A a \in Unique(fetched.rows) :
            /\ ret.fn = "calculate_rsi" =>
                   {r \in RowSet(ret.value) : r.cells["ticker"] = a}
                       = RowSet(FirstRsi(OnlyTicker(fetched, a), ret.arg))
            /\ ret.fn = "calculate_macd" =>
                   {r \in RowSet(ret.value) : r.cells["Ticker"] = a}
                       = RowSet(FirstMacd(OnlyTicker(fetched, a)))
            /\ ret.fn = "calculate_cagr" =>
                   ret.value[a] = FirstCagr(OnlyTicker(fetched, a))[a]
            /\ ret.fn = "calculate_historical_volatility" =>
                   {v \in Samples(ret.value) : v.Name = a}
                       = Samples(FirstVolatility(OnlyTicker(fetched, a)))


=============================================================================
